---- MODULE Spec2Model ----
(***************************************************************************)
(* A model of render_exporter: the /metrics scrape handler of              *)
(* src/src/metrics.ts and the ResourceCache of src/src/resourceCache.ts.   *)
(*                                                                         *)
(* Text is modelled as a sequence of lines, each line standing for the     *)
(* line's characters followed by "\n"; the empty line is "".               *)
(* A promise is modelled by its settlement: a record with ok = TRUE and a  *)
(* value, or ok = FALSE and an error.                                      *)
(***************************************************************************)
EXTENDS Integers, Sequences, FiniteSets, TLC

VARIABLES
  \* ---- one scrape request handled by createMetricsHandler's metrics() ----
  batchSize,     \* config.batchSize
  hpc,           \* position of the handler: "idle", "fetching", "collecting", "done"
  fetched,       \* the list getServices resolved with (<<>> before it resolves)
  coll,          \* per family collector: its batches, the responses so far, its settlement
  issued,        \* number of upstream metric queries sent so far
  status,        \* HTTP status of the reply (0: no reply yet)
  body,          \* reply body: lines of a metrics body, or a one-line error string
  logged,        \* the messages given to logger.error
  uncaught,      \* TRUE when an error left metrics() without being caught
  \* ---- one ResourceCache instance and its environment ----
  maxAge,        \* this.maxAge
  now,           \* the clock read by new Date()
  services,      \* this.services
  redises,       \* this.redises
  postgreses,    \* this.postgreses
  lastRefreshed, \* this.lastRefreshed (Null or a time)
  timers,        \* callbacks queued by setTimeout(..., 0), oldest first (refresh ids)
  refreshes,     \* refreshResources() calls started so far, by id
  gets,          \* number of getResources() calls made so far
  call,          \* the last getResources() call: what it returned, and what it saw
  lastDone,      \* the last refresh that ran lines 65-70, and the time it did (history)
  unhandled,     \* number of promises rejected with no handler attached
  errlog,        \* number of console.error calls of refreshResources
  \* ---- one call of a function of metrics.ts taken on its own ----
  args,          \* the arguments the function is called with
  ret,           \* what the call returned
  ppc,           \* position of the call: "none", "called", "returned"
  \* ---- the server of server.ts and the requests it handles ----
  auth,          \* config.auth: username, password, bearer_token
  routes,        \* the routes registered by start(): url -> onRequest hook
  request,       \* the request being served: its url and Authorization header
  scrapes        \* the /metrics requests being handled at the same time

hvars == <<batchSize, hpc, fetched, coll, issued, status, body, logged, uncaught>>
cvars == <<maxAge, now, services, redises, postgreses, lastRefreshed, timers,
           refreshes, gets, call, lastDone, unhandled, errlog>>
pvars == <<args, ret, ppc>>
svars == <<auth, routes, request, scrapes>>
vars == <<hvars, cvars, pvars, svars>>

(***************************************************************************)
(* Bounds of the model.                                                    *)
(***************************************************************************)
MaxServices == 2   \* longest resource list a scrape fetches
MaxBatchSize == 2  \* largest config.batchSize tried
MaxGets == 3       \* getResources() calls per behaviour
MaxTime == 2       \* last clock value
MaxMaxAge == 1     \* largest maxAge tried
MaxLen == 4        \* longest array given to chunkArray on its own
MaxChunkSize == 3  \* largest chunkSize given to chunkArray on its own
MaxSeries == 2     \* most series the batch queries of one collectMetrics call return
MaxPoints == 2     \* most points given to formatMetricValues on its own
MaxIssued == 8     \* most metric queries one scrape sends
MaxListCalls == 9  \* most list calls the refreshes of one cache send

Undefined == "undefined-value"

(***************************************************************************)
(* Generic helpers.                                                        *)
(***************************************************************************)
Min(a, b) == IF a < b THEN a ELSE b

RECURSIVE Flat(_)
\* Array.prototype.flat() on an array of arrays
Flat(ss) == IF ss = <<>> THEN <<>> ELSE Head(ss) \o Flat(Tail(ss))

RECURSIVE JoinBlocksTight(_)
JoinBlocksTight(bs) ==
  IF bs = <<>> THEN <<>> ELSE Head(bs) \o JoinBlocksTight(Tail(bs))
RECURSIVE JoinBlocks(_)
\* blocks.join("\n") where every block is text ending in "\n": the separator
\* closes an empty line between two consecutive blocks
JoinBlocks(bs) ==
  IF bs = <<>> THEN <<>>
  ELSE IF Len(bs) = 1 THEN Head(bs)
  ELSE Head(bs) \o <<"">> \o JoinBlocks(Tail(bs))

RECURSIVE JoinStr(_, _)
\* Array.prototype.join(sep) on strings
JoinStr(ss, sep) ==
  IF ss = <<>> THEN ""
  ELSE IF Len(ss) = 1 THEN Head(ss)
  ELSE Head(ss) \o sep \o JoinStr(Tail(ss), sep)

Range(s) == {s[i] : i \in DOMAIN s}

(***************************************************************************)
(* Data of the metrics pipeline.                                           *)
(*   Service        [id, name]                                             *)
(*   MetricResponse [null, unit, labels, values]; null = TRUE stands for a *)
(*                  null/undefined array entry; labels = <<>> also stands  *)
(*                  for a missing labels property (both fail               *)
(*                  labels?.length > 0)                                    *)
(*   MetricLabel    [field, value]; value = Undefined stands for undefined *)
(*   MetricValue    [labels, value]; labels is the object's entries in     *)
(*                  insertion order, as <<key, val>> pairs                 *)
(*   MetricResult   [null, definition, values]; null = TRUE stands for the *)
(*                  null a .catch handler returns                          *)
(***************************************************************************)
Fulfilled(v) == [ok |-> TRUE, val |-> v, err |-> ""]
Rejected(e) == [ok |-> FALSE, val |-> <<>>, err |-> e]

NoDefinition == [name |-> "", help |-> "", type |-> ""]
NullResult == [null |-> TRUE, definition |-> NoDefinition, values |-> <<>>]
Result(d, vs) == [null |-> FALSE, definition |-> d, values |-> vs]

\* Array.prototype.slice(from, to) with 0-based from, exclusive to
SliceInclusive(array, from, to) ==
  [k \in 1..(Min(to + 1, Len(array)) - from) |-> array[from + k]]
Slice(array, from, to) ==
  [k \in 1..(Min(to, Len(array)) - from) |-> array[from + k]]

RECURSIVE ChunkFrom(_, _, _)
ChunkFrom(array, chunkSize, i) ==
  IF i < Len(array)
  THEN <<Slice(array, i, i + chunkSize)>> \o ChunkFrom(array, chunkSize, i + chunkSize)
  ELSE <<>>

\* chunkArray: for (i = 0; i < array.length; i += chunkSize) push(slice(i, i + chunkSize))
chunkArrayAtLeastOne(array, chunkSize) ==
  IF array = <<>> THEN << <<>> >> ELSE ChunkFrom(array, chunkSize, 0)
chunkArray(array, chunkSize) == ChunkFrom(array, chunkSize, 0)

formatMetricHeader(metric) ==
  << "# HELP " \o metric.name \o " " \o metric.help,
     "# TYPE " \o metric.name \o " " \o metric.type >>

\* The label keys that occur in the model, in localeCompare order.
LabelKeyOrder == <<"instance", "resource", "service_name", "unit">>
KeyRank(k) == CHOOSE i \in DOMAIN LabelKeyOrder : LabelKeyOrder[i] = k
\* keyA.localeCompare(keyB) < 0
KeyBefore(keyA, keyB) == KeyRank(keyA) < KeyRank(keyB)

RECURSIVE InsertEntry(_, _)
InsertEntry(e, sorted) ==
  IF sorted = <<>> THEN <<e>>
  ELSE IF KeyBefore(e[1], Head(sorted)[1]) THEN <<e>> \o sorted
  ELSE <<Head(sorted)>> \o InsertEntry(e, Tail(sorted))

RECURSIVE SortEntries(_)
\* Object.entries(labels).sort(([keyA], [keyB]) => keyA.localeCompare(keyB))
SortEntriesAsInserted(entries) == entries
SortEntries(entries) ==
  IF entries = <<>> THEN <<>>
  ELSE InsertEntry(entries[Len(entries)], SortEntries(SubSeq(entries, 1, Len(entries) - 1)))

FormatValueLine(metricName, value) ==
  LET sorted == SortEntries(value.labels)
      labels == JoinStr([i \in DOMAIN sorted |->
                           sorted[i][1] \o "=\"" \o sorted[i][2] \o "\""], ", ")
  IN metricName \o "{" \o labels \o "} " \o ToString(value.value)

\* values.map(line).join("\n") + "\n": one line per value; of no value, one empty line
formatMetricValues(metricName, values) ==
  IF values = <<>> THEN <<"">>
  ELSE [i \in DOMAIN values |-> FormatValueLine(metricName, values[i])]

formatMetricResultAlways(result) ==
  formatMetricHeader(result.definition)
  \o formatMetricValues(result.definition.name, result.values)
formatMetricResult(result) ==
  IF Len(result.values) = 0 THEN <<>>
  ELSE formatMetricHeader(result.definition)
       \o formatMetricValues(result.definition.name, result.values)

(***************************************************************************)
(* collectMetrics: what runs once every batch query has resolved.          *)
(***************************************************************************)
RECURSIVE MapGetName(_, _)
\* serviceMap.get(id)?.name with serviceMap filled by services.forEach(set):
\* the last service with that id wins; Undefined when there is none
MapGetName(svcs, id) ==
  IF svcs = <<>> THEN Undefined
  ELSE IF svcs[Len(svcs)].id = id THEN svcs[Len(svcs)].name
  ELSE MapGetName(SubSeq(svcs, 1, Len(svcs) - 1), id)

RECURSIVE FindResource(_)
\* metric.labels.find((x) => x.field == "resource")?.value || ""
FindResource(labels) ==
  IF labels = <<>> THEN ""
  ELSE IF Head(labels).field = "resource"
       THEN (IF Head(labels).value = Undefined THEN "" ELSE Head(labels).value)
  ELSE FindResource(Tail(labels))

\* serviceMap.get(...)?.name || "unknown"
ServiceNameNoDefault(svcs, labels) == MapGetName(svcs, FindResource(labels))
ServiceName(svcs, labels) ==
  LET name == MapGetName(svcs, FindResource(labels))
  IN IF name = Undefined \/ name = "" THEN "unknown" ELSE name

RECURSIVE SetLabel(_, _, _)
\* labels[key] = val on an object kept as its entries in insertion order
SetLabel(labels, key, val) ==
  IF labels = <<>> THEN << <<key, val>> >>
  ELSE IF Head(labels)[1] = key THEN << <<key, val>> >> \o Tail(labels)
  ELSE <<Head(labels)>> \o SetLabel(Tail(labels), key, val)

RECURSIVE AddLabels(_, _)
\* metric.labels.forEach: if (label.field && label.value !== undefined) labels[field] = String(value)
\* (the label values of the model are strings, which String() returns as they are)
AddLabelsComputedWin(labels, upstream) ==
  IF upstream = <<>> THEN labels
  ELSE LET l == Head(upstream)
       IN AddLabels(IF l.field # "" /\ l.value # Undefined
                       /\ \A i \in DOMAIN labels : labels[i][1] # l.field
                    THEN SetLabel(labels, l.field, l.value)
                    ELSE labels,
                    Tail(upstream))
AddLabels(labels, upstream) ==
  IF upstream = <<>> THEN labels
  ELSE LET l == Head(upstream)
       IN AddLabels(IF l.field # "" /\ l.value # Undefined
                    THEN SetLabel(labels, l.field, l.value)
                    ELSE labels,
                    Tail(upstream))

\* the test of line 106, after .filter(Boolean) dropped the null entries
Survives(metric) ==
  /\ ~metric.null
  /\ Len(metric.labels) > 0
  /\ Len(metric.values) > 0

\* lines 107-127: the MetricValue pushed for one surviving series
PointOfOldest(svcs, metric) ==
  [ labels |-> AddLabels(<< <<"unit", metric.unit>>,
                            <<"service_name", ServiceName(svcs, metric.labels)>> >>,
                         metric.labels),
    value |-> metric.values[1].value ]
PointOf(svcs, metric) ==
  [ labels |-> AddLabels(<< <<"unit", metric.unit>>,
                            <<"service_name", ServiceName(svcs, metric.labels)>> >>,
                         metric.labels),
    value |-> metric.values[Len(metric.values)].value ]

RECURSIVE PointsOf(_, _)
\* lines 100-129 over allMetricsResults.flat()
PointsOf(svcs, metrics) ==
  IF metrics = <<>> THEN <<>>
  ELSE (IF Survives(Head(metrics)) THEN <<PointOf(svcs, Head(metrics))>> ELSE <<>>)
       \o PointsOf(svcs, Tail(metrics))

LabelOf(labels, key) ==
  IF \E i \in DOMAIN labels : labels[i][1] = key
  THEN labels[CHOOSE i \in DOMAIN labels : labels[i][1] = key][2]
  ELSE "undefined"

\* the Error thrown at line 133, as `${err}` renders it; the array of the
\* template's services.map(...) is rendered with "," between its elements
EmptyResultError(fnName, svcs) ==
  "Error: Empty metrics result " \o fnName \o " "
    \o JoinStr([i \in DOMAIN svcs |-> "«" \o svcs[i].id \o " " \o svcs[i].name \o "»"], ",")

\* lines 138-141: a copy of the definition, renamed after the first point's unit
updatedDefinitionNoUnit(metricDefinition, values) == metricDefinition
updatedDefinition(metricDefinition, values) ==
  [metricDefinition EXCEPT
     !.name = metricDefinition.name \o "_" \o LabelOf(values[1].labels, "unit")]

\* lines 99-146: the settlement of collectMetrics given the resolved batch
\* results. serviceMap is the map filled at lines 80-81, before the await;
\* svcs and metricDefinition are the caller's objects as they are after it,
\* when lines 134 and 138 read them
CollectSettleLenient(serviceMap, svcs, fnName, metricDefinition, allMetricsResults) ==
  LET values == PointsOf(serviceMap, Flat(allMetricsResults))
  IN Fulfilled(Result(IF Len(values) = 0 THEN metricDefinition
                      ELSE updatedDefinition(metricDefinition, values),
                      values))
CollectSettle(serviceMap, svcs, fnName, metricDefinition, allMetricsResults) ==
  LET values == PointsOf(serviceMap, Flat(allMetricsResults))
  IN IF Len(values) = 0
     THEN Rejected(EmptyResultError(fnName, svcs))
     ELSE Fulfilled(Result(updatedDefinition(metricDefinition, values), values))

\* the caller's definition object after the call: line 138 renames a copy
CallerDefinition(metricDefinition, p) == metricDefinition

Ids(svcs) == [i \in DOMAIN svcs |-> svcs[i].id]

(***************************************************************************)
(* The family collectors of one scrape, in the order of the Promise.all of *)
(* the handler.                                                            *)
(***************************************************************************)
Families == <<"instance", "count", "cpu", "memory", "bandwidth", "connections">>
AsyncFamilies == {"instance", "cpu", "memory", "bandwidth", "connections"}

Definition(f) ==
  CASE f = "instance" ->
         [name |-> "render_service_instance_count",
          help |-> "Current number of instances for a Render service", type |-> "gauge"]
    [] f = "count" ->
         [name |-> "render_service_count",
          help |-> "Total number of services", type |-> "gauge"]
    [] f = "cpu" ->
         [name |-> "render_service_cpu_usage",
          help |-> "CPU usage for a Render service", type |-> "gauge"]
    [] f = "memory" ->
         [name |-> "render_service_memory_usage",
          help |-> "Memory usage for a Render service in bytes", type |-> "gauge"]
    [] f = "bandwidth" ->
         [name |-> "render_service_bandwidth",
          help |-> "Bandwidth used by a render service", type |-> "gauge"]
    [] f = "connections" ->
         [name |-> "render_service_active_connections",
          help |-> "Active connections for redis or postgres servers", type |-> "gauge"]

\* metricFn.name of the query function a family passes to collectMetrics
MetricFn(f) ==
  CASE f = "instance" -> "instanceCount"
    [] f = "cpu" -> "cpuUsage"
    [] f = "memory" -> "memoryUsage"
    [] f = "bandwidth" -> "bandwidth"
    [] f = "connections" -> "activeConnections"

\* the text a family's .catch handler logs before the error
CatchText(f) ==
  CASE f = "instance" -> "Error collecting instance counts\n"
    [] f = "cpu" -> "Error collecting CPU metrics\n"
    [] f = "memory" -> "Error collecting memory metrics\n"
    [] f = "bandwidth" -> "Error collecting bandwidth metrics\n"
    [] f = "connections" -> "Error collecting active connections:\n"

\* id.startsWith(prefix) for the ids of the model, which all are "<kind>-<x>"
Kind(id) ==
  CASE id \in {"srv-a", "srv-b"} -> "srv-"
    [] id \in {"red-a"} -> "red-"
    [] id \in {"dpg-a"} -> "dpg-"
    [] OTHER -> "crn-"
StartsWith(id, prefix) == Kind(id) = prefix

BandwidthKeepAll(svc) == TRUE
BandwidthKeep(svc) == StartsWith(svc.id, "srv-")
ConnectionsKeep(svc) == StartsWith(svc.id, "red-") \/ StartsWith(svc.id, "dpg-")

\* the services a family hands to collectMetrics
relevantServices(f, svcs) ==
  CASE f = "bandwidth" -> SelectSeq(svcs, BandwidthKeep)
    [] f = "connections" -> SelectSeq(svcs, ConnectionsKeep)
    [] OTHER -> svcs

\* collectBandwidth and collectActiveConnections return before collectMetrics
ShortCircuitsNever(f, svcs) == FALSE
ShortCircuits(f, svcs) ==
  f \in {"bandwidth", "connections"} /\ Len(relevantServices(f, svcs)) = 0

collectServiceCountMetricNoPoint(svcs) == Result(Definition("count"), <<>>)
collectServiceCountMetric(svcs) ==
  Result(Definition("count"), << [labels |-> <<>>, value |-> Len(svcs)] >>)

(***************************************************************************)
(* The upstream API as the scrape sees it: the lists getServices may       *)
(* resolve with and the answers a batch query may get.                     *)
(***************************************************************************)
ServiceUniverse ==
  << [id |-> "srv-a", name |-> "web"],
     [id |-> "red-a", name |-> "cache"],
     [id |-> "dpg-a", name |-> "db"],
     [id |-> "crn-a", name |-> "nightly"] >>

\* the lists getServices may resolve with: the runs of at most MaxServices
\* consecutive services of ServiceUniverse
ServiceLists ==
  { SubSeq(ServiceUniverse, i, Min(i + n - 1, Len(ServiceUniverse))) :
      i \in DOMAIN ServiceUniverse, n \in 0..MaxServices }

UnitOf(f) ==
  CASE f = "instance" -> "count"
    [] f = "cpu" -> "percent"
    [] f = "memory" -> "bytes"
    [] f = "bandwidth" -> "mb"
    [] f = "connections" -> "connections"

\* one series per queried id, two data points each
FullAnswer(f, batch) ==
  [i \in DOMAIN batch |->
     [null |-> FALSE, unit |-> UnitOf(f),
      labels |-> << [field |-> "resource", value |-> batch[i]] >>,
      values |-> << [value |-> 0], [value |-> i] >>]]

\* what one batch query of a scrape may resolve with
Answers(f, batch) == { FullAnswer(f, batch), <<>> }

\* what the batch queries of one collectMetrics call may resolve with, as the
\* array Promise.all resolves with
AnswerArrays(f, batches) ==
  { a \in [DOMAIN batches -> UNION { Answers(f, batches[i]) : i \in DOMAIN batches }] :
      \A i \in DOMAIN batches : a[i] \in Answers(f, batches[i]) }

UpstreamError == "Error: upstream request failed"

(***************************************************************************)
(* createMetricsHandler: metrics(request, reply).                          *)
(***************************************************************************)
Pending == [st |-> "pending", p |-> Fulfilled(NullResult)]
Settled(p) == [st |-> "settled", p |-> p]

\* promise.catch((err) => { logger.error(...); return null; })
CatchNullMissing(p) == p
CatchNull(p) == IF p.ok THEN p ELSE Fulfilled(NullResult)

\* the catch block of the handler: logger.error(error); reply.code(500).send(...)
HandlerCatchRethrows(err, log) ==
  [status |-> 0, body |-> <<>>, logged |-> log \cup {err}, uncaught |-> TRUE]
HandlerCatch(err, log) ==
  [status |-> 500, body |-> <<"Error fetching metrics">>,
   logged |-> log \cup {err}, uncaught |-> FALSE]

\* a family collector called with the fetched services: what it has done when
\* the synchronous part of the handler is over (all its batch queries are sent)
LaunchOneByOne(f, svcs, bs) ==
  LET rel == relevantServices(f, svcs)
      batches == chunkArray(Ids(rel), bs)
  IN IF batches = <<>>
     THEN [batches |-> <<>>, resp |-> <<>>,
           out |-> Settled(Fulfilled(Result(Definition(f), <<>>)))]
     ELSE [batches |-> <<Head(batches)>>, resp |-> <<"pending">>, out |-> Pending]
Launch(f, svcs, bs) ==
  LET rel == relevantServices(f, svcs)
      batches == chunkArray(Ids(rel), bs)
  IN IF ShortCircuits(f, svcs)
     THEN [batches |-> <<>>, resp |-> <<>>,
           out |-> Settled(Fulfilled(Result(Definition(f), <<>>)))]
     ELSE IF batches = <<>>
     THEN [batches |-> <<>>, resp |-> <<>>,
           out |-> Settled(CollectSettle(rel, rel, MetricFn(f), Definition(f), <<>>))]
     ELSE [batches |-> batches, resp |-> [i \in DOMAIN batches |-> "pending"],
           out |-> Pending]

AllSettled(c) == \A f \in AsyncFamilies : c[f].out.st = "settled"

NotNull(r) == ~r.null
NonEmptyText(t) == Len(t) > 0

\* lines 289-351: the six promises of the Promise.all, then the reply
Reply(svcs, c, log) ==
  LET entries == [i \in DOMAIN Families |->
                    IF Families[i] = "count"
                    THEN Fulfilled(collectServiceCountMetric(svcs))
                    ELSE CatchNull(c[Families[i]].out.p)]
      failed == { i \in DOMAIN entries : ~entries[i].ok }
      metricResults == [i \in DOMAIN entries |-> entries[i].val]
      kept == SelectSeq(metricResults, NotNull)
      blocks == SelectSeq([i \in DOMAIN kept |-> formatMetricResult(kept[i])], NonEmptyText)
  IN IF failed # {}
     THEN HandlerCatch(entries[CHOOSE i \in failed : \A j \in failed : i <= j].err, log)
     ELSE IF Len(kept) = 0
     THEN [status |-> 500, body |-> <<"Error fetching metrics: all collectors failed">>,
           logged |-> log \cup {"All metric collections failed"}, uncaught |-> FALSE]
     ELSE [status |-> 200, body |-> JoinBlocks(blocks), logged |-> log, uncaught |-> FALSE]

\* the log lines of the .catch handlers of the families in fs that rejected
RECURSIVE CatchLog(_, _, _)
CatchLog(c, fs, log) ==
  IF fs = <<>> THEN log
  ELSE LET f == Head(fs)
       IN CatchLog(c, Tail(fs),
                   IF f \in AsyncFamilies /\ c[f].out.st = "settled" /\ ~c[f].out.p.ok
                   THEN log \cup {CatchText(f) \o c[f].out.p.err}
                   ELSE log)

\* the handler goes on once every collector has settled, and waits otherwise
Continue(svcs, c, log) ==
  IF AllSettled(c)
  THEN LET r == Reply(svcs, c, log)
       IN /\ hpc' = "done"
          /\ status' = r.status
          /\ body' = r.body
          /\ logged' = r.logged
          /\ uncaught' = r.uncaught
  ELSE /\ hpc' = "collecting"
       /\ logged' = log
       /\ UNCHANGED <<status, body, uncaught>>

HInit ==
  /\ batchSize \in 1..MaxBatchSize
  /\ hpc = "idle"
  /\ fetched = <<>>
  /\ coll = [f \in AsyncFamilies |-> [batches |-> <<>>, resp |-> <<>>, out |-> Pending]]
  /\ issued = 0
  /\ status = 0
  /\ body = <<>>
  /\ logged = {}
  /\ uncaught = FALSE

\* a scrape request arrives: metrics() runs up to await getServices(...)
Request ==
  /\ hpc = "idle"
  /\ hpc' = "fetching"
  /\ UNCHANGED <<batchSize, fetched, coll, issued, status, body, logged, uncaught>>
  /\ UNCHANGED cvars
  /\ UNCHANGED pvars
  /\ UNCHANGED svars

\* getServices resolves: every collector is called, which sends all batch queries
FetchOk ==
  /\ hpc = "fetching"
  /\ \E svcs \in ServiceLists :
       LET c == [f \in AsyncFamilies |-> Launch(f, svcs, batchSize)]
           n == Len(c["instance"].batches) + Len(c["cpu"].batches)
                + Len(c["memory"].batches) + Len(c["bandwidth"].batches)
                + Len(c["connections"].batches)
       IN /\ n <= MaxIssued
          /\ fetched' = svcs
          /\ coll' = c
          /\ issued' = n
          /\ Continue(svcs, c, CatchLog(c, Families, logged))
  /\ UNCHANGED batchSize
  /\ UNCHANGED cvars
  /\ UNCHANGED pvars
  /\ UNCHANGED svars

\* getServices rejects: the catch block replies
FetchFailLaunches ==
  /\ hpc = "fetching"
  /\ LET r == HandlerCatch(UpstreamError, logged)
         c == [f \in AsyncFamilies |-> Launch(f, <<>>, batchSize)]
     IN /\ hpc' = "done"
        /\ coll' = [c EXCEPT !["cpu"] = [batches |-> <<>>, resp |-> <<>>, out |-> Pending]]
        /\ status' = r.status
        /\ body' = r.body
        /\ logged' = r.logged
        /\ uncaught' = r.uncaught
  /\ UNCHANGED <<batchSize, fetched, issued>>
  /\ UNCHANGED cvars
  /\ UNCHANGED pvars
  /\ UNCHANGED svars
FetchFail ==
  /\ hpc = "fetching"
  /\ LET r == HandlerCatch(UpstreamError, logged)
     IN /\ hpc' = "done"
        /\ status' = r.status
        /\ body' = r.body
        /\ logged' = r.logged
        /\ uncaught' = r.uncaught
  /\ UNCHANGED <<batchSize, fetched, coll, issued>>
  /\ UNCHANGED cvars
  /\ UNCHANGED pvars
  /\ UNCHANGED svars

\* a batch query of family f resolves. The answers are read only once all
\* batches have resolved, which is when they are drawn: the last batch to
\* resolve lets collectMetrics run to its end on the array of all answers
BatchOk(f, i) ==
  /\ hpc = "collecting"
  /\ coll[f].out.st = "pending"
  /\ i \in DOMAIN coll[f].resp
  /\ coll[f].resp[i] = "pending"
  /\ LET resp == [coll[f].resp EXCEPT ![i] = "ok"]
         done == \A j \in DOMAIN resp : resp[j] = "ok"
     IN IF done
        THEN \E allMetricsResults \in AnswerArrays(f, coll[f].batches) :
               LET rel == relevantServices(f, fetched)
                   p == CollectSettle(rel, rel, MetricFn(f), Definition(f),
                                      allMetricsResults)
                   c == [coll EXCEPT ![f] = [batches |-> @.batches, resp |-> <<>>,
                                             out |-> Settled(p)]]
               IN /\ coll' = c
                  /\ Continue(fetched, c, CatchLog(c, <<f>>, logged))
        ELSE /\ coll' = [coll EXCEPT ![f] = [batches |-> @.batches, resp |-> resp,
                                             out |-> Pending]]
             /\ UNCHANGED <<hpc, status, body, logged, uncaught>>
  /\ UNCHANGED <<batchSize, fetched, issued>>
  /\ UNCHANGED cvars
  /\ UNCHANGED pvars
  /\ UNCHANGED svars

\* a batch query of family f rejects: Promise.all rejects collectMetrics at
\* once; what its other batch queries do later changes nothing any more, and
\* of the responses only the fact of the rejection is kept
BatchFailSkipped(f, i) ==
  /\ hpc = "collecting"
  /\ coll[f].out.st = "pending"
  /\ i \in DOMAIN coll[f].resp
  /\ coll[f].resp[i] = "pending"
  /\ LET others == [j \in DOMAIN coll[f].batches |->
                      IF j = i THEN <<>> ELSE FullAnswer(f, coll[f].batches[j])]
         rel == relevantServices(f, fetched)
         p == CollectSettle(rel, rel, MetricFn(f), Definition(f), others)
         c == [coll EXCEPT ![f] = [batches |-> @.batches,
                                   resp |-> <<"rejected">>,
                                   out |-> Settled(p)]]
     IN /\ coll' = c
        /\ Continue(fetched, c, CatchLog(c, <<f>>, logged))
  /\ UNCHANGED <<batchSize, fetched, issued>>
  /\ UNCHANGED cvars
  /\ UNCHANGED pvars
  /\ UNCHANGED svars
BatchFail(f, i) ==
  /\ hpc = "collecting"
  /\ coll[f].out.st = "pending"
  /\ i \in DOMAIN coll[f].resp
  /\ coll[f].resp[i] = "pending"
  /\ LET c == [coll EXCEPT ![f] = [batches |-> @.batches,
                                   resp |-> <<"rejected">>,
                                   out |-> Settled(Rejected(UpstreamError))]]
     IN /\ coll' = c
        /\ Continue(fetched, c, CatchLog(c, <<f>>, logged))
  /\ UNCHANGED <<batchSize, fetched, issued>>
  /\ UNCHANGED cvars
  /\ UNCHANGED pvars
  /\ UNCHANGED svars

HNext ==
  \/ Request
  \/ FetchOk
  \/ FetchFail
  \/ \E f \in AsyncFamilies : \E i \in 1..MaxServices : BatchOk(f, i)
  \/ \E f \in AsyncFamilies : \E i \in 1..MaxServices : BatchFail(f, i)

(***************************************************************************)
(* ResourceCache.                                                          *)
(* A list is [by, items]: items are its elements and by tells the arrays   *)
(* apart, as object identity does: 0 for the arrays of the field           *)
(* initialisers, r for the arrays fetched by the r-th refreshResources().  *)
(***************************************************************************)
Kinds == {"services", "redises", "postgreses"}

NoDate == [null |-> TRUE, time |-> 0]
DateAt(t) == [null |-> FALSE, time |-> t]

EmptyList == [by |-> 0, items |-> <<>>]

\* what the upstream list calls resolve with
Upstream(k) ==
  CASE k = "services" -> <<"srv-a">>
    [] k = "redises" -> <<"red-a">>
    [] k = "postgreses" -> <<"dpg-a">>

\* the array the list call of kind k of the r-th refresh resolves with
FetchedList(r, k) == [by |-> r, items |-> Upstream(k)]

\* isStale(), lines 42-48
isStaleLoose ==
  IF lastRefreshed.null THEN TRUE ELSE now - lastRefreshed.time >= maxAge
isStale ==
  IF lastRefreshed.null THEN TRUE ELSE now - lastRefreshed.time > maxAge

\* the fields of the cache
Fields ==
  [services |-> services, redises |-> redises, postgreses |-> postgreses,
   lastRefreshed |-> lastRefreshed]

\* the object getResources returns, lines 94-98
ReturnedFresh ==
  [services |-> IF isStale THEN [by |-> Len(refreshes) + 1, items |-> Upstream("services")]
                ELSE services,
   redises |-> IF isStale THEN [by |-> Len(refreshes) + 1, items |-> Upstream("redises")]
               ELSE redises,
   postgreses |-> IF isStale THEN [by |-> Len(refreshes) + 1, items |-> Upstream("postgreses")]
                  ELSE postgreses]
Returned ==
  [services |-> services, redises |-> redises, postgreses |-> postgreses]

\* the fields after lines 65-70 ran with the three fetched lists
AssignedTorn(newServices, newRedises, newPostgreses) ==
  [services |-> newServices, redises |-> redises,
   postgreses |-> newPostgreses, lastRefreshed |-> DateAt(now)]
Assigned(newServices, newRedises, newPostgreses) ==
  [services |-> newServices, redises |-> newRedises,
   postgreses |-> newPostgreses, lastRefreshed |-> DateAt(now)]

\* the fields after the catch block, lines 71-74, ran
AfterCatchReset ==
  [Fields EXCEPT !.lastRefreshed = NoDate]
AfterCatch ==
  Fields

SetFields(f) ==
  /\ services' = f.services
  /\ redises' = f.redises
  /\ postgreses' = f.postgreses
  /\ lastRefreshed' = f.lastRefreshed

CInit ==
  /\ maxAge \in 1..MaxMaxAge
  /\ now = 0
  /\ services = EmptyList
  /\ redises = EmptyList
  /\ postgreses = EmptyList
  /\ lastRefreshed = NoDate
  /\ timers = <<>>
  /\ refreshes = <<>>
  /\ gets = 0
  /\ call = [ret |-> [services |-> EmptyList, redises |-> EmptyList, postgreses |-> EmptyList],
             age |-> -1, sched |-> FALSE]
  /\ lastDone = [id |-> 0, at |-> 0]
  /\ unhandled = 0
  /\ errlog = 0

\* time passes
Tick ==
  /\ now < MaxTime
  /\ now' = now + 1
  /\ UNCHANGED <<maxAge, services, redises, postgreses, lastRefreshed, timers,
                 refreshes, gets, call, lastDone, unhandled, errlog>>
  /\ UNCHANGED hvars
  /\ UNCHANGED pvars
  /\ UNCHANGED svars

\* getResources(), lines 83-99: the whole body runs without an await
GetResources ==
  /\ gets < MaxGets
  /\ LET queued == IF isStale THEN Append(timers, gets + 1) ELSE timers
     IN /\ timers' = queued
        /\ call' = [ret |-> Returned,
                    age |-> IF lastRefreshed.null THEN -1 ELSE now - lastRefreshed.time,
                    sched |-> queued # timers]
  /\ gets' = gets + 1
  /\ UNCHANGED <<maxAge, now, services, redises, postgreses, lastRefreshed,
                 refreshes, lastDone, unhandled, errlog>>
  /\ UNCHANGED hvars
  /\ UNCHANGED pvars
  /\ UNCHANGED svars

\* the oldest setTimeout callback runs: refreshResources() sends its three
\* list calls and waits at the await of line 58
TimerFire ==
  /\ timers # <<>>
  /\ Cardinality(Kinds) * (Len(refreshes) + 1) <= MaxListCalls
  /\ timers' = Tail(timers)
  /\ refreshes' = Append(refreshes,
                         [call |-> Head(timers), st |-> "running",
                          got |-> [k \in Kinds |-> "pending"]])
  /\ UNCHANGED <<maxAge, now, services, redises, postgreses, lastRefreshed,
                 gets, call, lastDone, unhandled, errlog>>
  /\ UNCHANGED hvars
  /\ UNCHANGED pvars
  /\ UNCHANGED svars

\* a list call of the r-th refresh resolves; when it is the last of the three,
\* Promise.all resolves and lines 65-70 run
ListOk(r, k) ==
  /\ r \in DOMAIN refreshes
  /\ refreshes[r].st = "running"
  /\ refreshes[r].got[k] = "pending"
  /\ LET got == [refreshes[r].got EXCEPT ![k] = "ok"]
         all == \A j \in Kinds : got[j] = "ok"
     IN /\ refreshes' = [refreshes EXCEPT ![r] =
                           [call |-> @.call, st |-> IF all THEN "done" ELSE "running",
                            got |-> got]]
        /\ SetFields(IF all
                     THEN Assigned(FetchedList(r, "services"), FetchedList(r, "redises"),
                                   FetchedList(r, "postgreses"))
                     ELSE Fields)
        /\ lastDone' = IF all THEN [id |-> r, at |-> now] ELSE lastDone
  /\ UNCHANGED <<maxAge, now, timers, gets, call, unhandled, errlog>>
  /\ UNCHANGED hvars
  /\ UNCHANGED pvars
  /\ UNCHANGED svars

\* a list call of the r-th refresh rejects: Promise.all rejects, the catch block
\* logs and throws again, and the promise the timer callback dropped is rejected
\* (the runtime decides what an unhandled rejection does to the process; the
\* model counts it and goes on). The other list calls of a failed refresh
\* change nothing any more.
ListFail(r, k) ==
  /\ r \in DOMAIN refreshes
  /\ refreshes[r].st = "running"
  /\ refreshes[r].got[k] = "pending"
  /\ refreshes' = [refreshes EXCEPT ![r] =
                     [call |-> @.call, st |-> "failed",
                      got |-> [@.got EXCEPT ![k] = "rejected"]]]
  /\ SetFields(AfterCatch)
  /\ errlog' = errlog + 1
  /\ unhandled' = unhandled + 1
  /\ UNCHANGED <<maxAge, now, timers, gets, call, lastDone>>
  /\ UNCHANGED hvars
  /\ UNCHANGED pvars
  /\ UNCHANGED svars

CNext ==
  \/ Tick
  \/ GetResources
  \/ TimerFire
  \/ \E r \in 1..MaxGets : \E k \in Kinds : ListOk(r, k)
  \/ \E r \in 1..MaxGets : \E k \in Kinds : ListFail(r, k)

(***************************************************************************)
(* Specifications: one scrape against the upstream API, and one cache with *)
(* its callers, timers and list calls.                                     *)
(***************************************************************************)
\* no function is called on its own
PInit ==
  /\ args = <<>>
  /\ ret = <<>>
  /\ ppc = "none"

\* an optional string: an environment variable that is not set, or its
\* characters
Unset == [set |-> FALSE, str |-> <<>>]
Str(chars) == [set |-> TRUE, str |-> chars]

NoRequest == [url |-> "", authorization |-> Unset]

\* no server is started
SInit ==
  /\ auth = [username |-> Unset, password |-> Unset, bearer_token |-> Unset]
  /\ routes = <<>>
  /\ request = NoRequest
  /\ scrapes = <<>>

InitScrape == HInit /\ CInit /\ maxAge = 1 /\ PInit /\ SInit
InitCache == CInit /\ HInit /\ batchSize = 1 /\ PInit /\ SInit

SpecScrape == InitScrape /\ [][HNext]_vars
SpecCache == InitCache /\ [][CNext]_vars

(***************************************************************************)
(* chunkArray called on its own, with every array of at most MaxLen ids    *)
(* and every chunk size from 1 to MaxChunkSize.                            *)
(***************************************************************************)
RECURSIVE SeqsUpTo(_, _)
\* the sequences of at most n elements of S
SeqsUpTo(S, n) ==
  IF n = 0 THEN {<<>>}
  ELSE LET shorter == SeqsUpTo(S, n - 1)
       IN shorter \cup { Append(q, x) : q \in shorter, x \in S }

ChunkArgs ==
  { [array |-> a, chunkSize |-> b] :
      a \in SeqsUpTo({"srv-a", "red-a"}, MaxLen), b \in 1..MaxChunkSize }

InitChunk ==
  /\ HInit /\ batchSize = 1
  /\ CInit /\ maxAge = 1
  /\ args \in ChunkArgs
  /\ ret = <<>>
  /\ ppc = "called"
  /\ SInit

\* the call runs to its return
ChunkCall ==
  /\ ppc = "called"
  /\ ret' = chunkArray(args.array, args.chunkSize)
  /\ ppc' = "returned"
  /\ UNCHANGED <<args, hvars, cvars, svars>>

SpecChunk == InitChunk /\ [][ChunkCall]_vars

(***************************************************************************)
(* collectMetrics called on its own: the resource list, the batch size and *)
(* the definition it is given, and what its batch queries resolve with.    *)
(***************************************************************************)
Label(field, value) == [field |-> field, value |-> value]
Series(unit, labels, values) ==
  [null |-> FALSE, unit |-> unit, labels |-> labels,
   values |-> [i \in DOMAIN values |-> [value |-> values[i]]]]

\* the series a batch query may return, well formed or not
SeriesUniverse ==
  { [null |-> TRUE, unit |-> "", labels |-> <<>>, values |-> <<>>],
    Series("percent", <<>>, <<10>>),
    Series("percent", <<Label("resource", "srv-a")>>, <<>>),
    Series("percent", <<Label("resource", "srv-a")>>, <<0, 1>>),
    Series("bytes", <<Label("instance", "i-1"), Label("resource", "red-a")>>, <<2>>),
    Series("percent", <<Label("resource", "srv-b")>>, <<4, 3>>),
    Series("count", <<Label("instance", "i-2")>>, <<4>>),
    Series("percent", <<Label("resource", "srv-a"), Label("unit", "seconds"),
                        Label("service_name", "custom")>>, <<5>>),
    Series("percent", <<Label("resource", Undefined), Label("resource", "srv-a"),
                        Label("", "x")>>, <<6>>),
    Series("percent", <<Label("instance", "i-1"), Label("instance", "i-2")>>, <<7>>) }

\* the resource lists collectMetrics is called with; one holds a resource
\* whose name is the empty string
CollectServices ==
  { <<>>,
    SubSeq(ServiceUniverse, 1, 1),
    SubSeq(ServiceUniverse, 1, 1) \o << [id |-> "srv-b", name |-> ""] >> }

\* the arrays Promise.all may resolve with: one array of series per batch,
\* the series of a call being spread over its first two batches
Spread(series, n) ==
  IF n = 0 THEN (IF series = <<>> THEN {<<>>} ELSE {})
  ELSE IF n = 1 THEN {<<series>>}
  ELSE { <<SubSeq(series, 1, k), SubSeq(series, k + 1, Len(series))>>
            \o [i \in 1..(n - 2) |-> <<>>] : k \in 0..Len(series) }

CollectArgs ==
  UNION { UNION { { [services |-> svcs, batchSize |-> bs, family |-> f,
                     metricDefinition |-> Definition(f), allMetricsResults |-> a] :
                     a \in Spread(series, Len(chunkArray(Ids(svcs), bs))),
                     f \in {"cpu", "connections"} } :
                  svcs \in CollectServices, bs \in 1..MaxBatchSize } :
          series \in SeqsUpTo(SeriesUniverse, MaxSeries) }

InitCollect ==
  /\ HInit /\ batchSize = 1
  /\ CInit /\ maxAge = 1
  /\ args \in CollectArgs
  /\ ret = <<>>
  /\ ppc = "called"
  /\ SInit

\* the call runs to the await of line 97: the map of the services is filled,
\* the batch queries are sent, and the promise returned to the caller is
\* pending
CollectCall ==
  /\ ppc = "called"
  /\ ret' = [promise |-> "pending",
             serviceMap |-> args.services,
             queriesSent |-> chunkArray(Ids(args.services), args.batchSize)]
  /\ ppc' = "waiting"
  /\ UNCHANGED <<args, hvars, cvars, svars>>

\* while the call waits, its caller may write to the objects it passed: the
\* definition and the array of services are shared, not copied
CallerRenames ==
  /\ ppc = "waiting"
  /\ args.metricDefinition.name # "renamed_by_caller"
  /\ args' = [args EXCEPT !.metricDefinition.name = "renamed_by_caller"]
  /\ UNCHANGED <<ret, ppc, hvars, cvars, svars>>

CallerPushes ==
  /\ ppc = "waiting"
  /\ Len(args.services) = Len(ret.serviceMap)
  /\ args' = [args EXCEPT !.services = Append(@, ServiceUniverse[Len(@) + 1])]
  /\ UNCHANGED <<ret, ppc, hvars, cvars, svars>>

\* the batch queries have resolved: lines 99-146 run and settle the promise
CollectReturn ==
  /\ ppc = "waiting"
  /\ LET p == CollectSettle(ret.serviceMap, args.services, MetricFn(args.family),
                            args.metricDefinition, args.allMetricsResults)
     IN ret' = [promise |-> "settled",
                serviceMap |-> ret.serviceMap,
                queriesSent |-> ret.queriesSent,
                outcome |-> p,
                metricDefinition |-> CallerDefinition(args.metricDefinition, p)]
  /\ ppc' = "returned"
  /\ UNCHANGED <<args, hvars, cvars, svars>>

CollectNext ==
  \/ CollectCall
  \/ CallerRenames
  \/ CallerPushes
  \/ CollectReturn

SpecCollect == InitCollect /\ [][CollectNext]_vars

(***************************************************************************)
(* formatMetricValues called on its own, with points whose label objects   *)
(* hold some of three labels, inserted in every order.                     *)
(***************************************************************************)
LabelEntries ==
  { <<"resource", "srv-a">>, <<"service_name", "web">>, <<"unit", "percent">> }

\* the orders in which the entries of S may have been inserted in an object
Orderings(S) ==
  { q \in SeqsUpTo(S, Cardinality(S)) : Len(q) = Cardinality(S) /\ Range(q) = S }

FormatPoints ==
  { [labels |-> q, value |-> v] :
      q \in UNION { Orderings(S) : S \in SUBSET LabelEntries }, v \in {0, 42} }

FormatArgs ==
  { [metricName |-> "render_service_cpu_usage_percent", values |-> vs] :
      vs \in SeqsUpTo(FormatPoints, MaxPoints) }

InitFormat ==
  /\ HInit /\ batchSize = 1
  /\ CInit /\ maxAge = 1
  /\ args \in FormatArgs
  /\ ret = <<>>
  /\ ppc = "called"
  /\ SInit

\* the call runs to its return
FormatCall ==
  /\ ppc = "called"
  /\ ret' = formatMetricValues(args.metricName, args.values)
  /\ ppc' = "returned"
  /\ UNCHANGED <<args, hvars, cvars, svars>>

SpecFormat == InitFormat /\ [][FormatCall]_vars

(***************************************************************************)
(* The server of server.ts: start() registers the routes, with the         *)
(* onRequest hook of the configured auth mode on /metrics, and then serves *)
(* requests. Header values and credentials are sequences of characters.    *)
(* Fastify runs a route's onRequest hook before its handler and does not   *)
(* run the handler once the hook has sent the reply.                       *)
(***************************************************************************)
\* JavaScript truthiness of a string | undefined
Truthy(o) == o.set /\ o.str # <<>>

\* String.prototype.startsWith(prefix)
startsWith(chars, prefix) ==
  Len(chars) >= Len(prefix) /\ SubSeq(chars, 1, Len(prefix)) = prefix
\* String.prototype.substring(start)
substring(chars, start) == SubSeq(chars, Min(start, Len(chars)) + 1, Len(chars))

BearerPrefix == <<"B", "e", "a", "r", "e", "r", " ">>
BasicPrefix == <<"B", "a", "s", "i", "c", " ">>

\* what an onRequest hook did: sent the reply itself, or let the request pass
Sent(code, payload) == [sent |-> TRUE, status |-> code, body |-> <<payload>>]
Pass == [sent |-> FALSE, status |-> 0, body |-> <<>>]

\* the hook of lines 63-75
verifyBearerTokenAnyToken(authorization, cfg) ==
  IF ~Truthy(authorization) \/ ~startsWith(authorization.str, BearerPrefix)
  THEN Sent(401, "{\"error\":\"Unauthorized: Bearer token required\"}")
  ELSE Pass
verifyBearerToken(authorization, cfg) ==
  IF ~Truthy(authorization) \/ ~startsWith(authorization.str, BearerPrefix)
  THEN Sent(401, "{\"error\":\"Unauthorized: Bearer token required\"}")
  ELSE LET token == substring(authorization.str, 7)
       IN IF Str(token) # cfg.bearer_token
          THEN Sent(401, "{\"error\":\"Unauthorized: Invalid token\"}")
          ELSE Pass

\* the validate function of lines 90-97: TRUE when it throws
validateThrows(username, password, cfg) ==
  Str(username) # cfg.username \/ Str(password) # cfg.password

\* the position of the first ":" in chars, 0 when there is none
FirstColon(chars) ==
  IF \E i \in DOMAIN chars : chars[i] = ":"
  THEN CHOOSE i \in DOMAIN chars : chars[i] = ":" /\ \A j \in 1..(i - 1) : chars[j] # ":"
  ELSE 0

\* server.basicAuth of @fastify/basic-auth with the validate function of
\* lines 90-97; the model leaves the base64 layer out: a Basic header carries
\* "username:password" in clear
basicAuth(authorization, cfg) ==
  IF ~Truthy(authorization) \/ ~startsWith(authorization.str, BasicPrefix)
  THEN Sent(401, "Missing or bad formatted authorization header")
  ELSE LET credentials == substring(authorization.str, Len(BasicPrefix))
           colon == FirstColon(credentials)
       IN IF colon = 0
          THEN Sent(401, "Missing or bad formatted authorization header")
          ELSE IF validateThrows(SubSeq(credentials, 1, colon - 1),
                                 substring(credentials, colon), cfg)
          THEN Sent(401, "Invalid credentials")
          ELSE Pass

\* lines 132-140: the auth mode start() sets up
AuthModeBasicFirst(cfg) ==
  IF Truthy(cfg.username) /\ Truthy(cfg.password) THEN "basic"
  ELSE IF Truthy(cfg.bearer_token) THEN "bearer"
  ELSE "none"
AuthMode(cfg) ==
  IF Truthy(cfg.bearer_token) THEN "bearer"
  ELSE IF Truthy(cfg.username) /\ Truthy(cfg.password) THEN "basic"
  ELSE "none"

\* lines 132-148: the routes and their onRequest hooks
Registered(cfg) ==
  [url \in {"/metrics", "/", "/favicon.ico"} |->
     IF url = "/metrics" THEN AuthMode(cfg) ELSE "none"]

RunHook(hook, authorization, cfg) ==
  CASE hook = "bearer" -> verifyBearerToken(authorization, cfg)
    [] hook = "basic" -> basicAuth(authorization, cfg)
    [] OTHER -> Pass

Tok1 == <<"s", "1">>
Tok2 == <<"s", "2">>
User == <<"u">>
Password == <<"p">>

\* the values of AUTH_USERNAME, AUTH_PASSWORD and AUTH_BEARER_TOKEN
AuthConfigs ==
  { [username |-> u, password |-> w, bearer_token |-> b] :
      u \in {Unset, Str(<<>>), Str(User)},
      w \in {Unset, Str(<<>>), Str(Password)},
      b \in {Unset, Str(<<>>), Str(Tok1), Str(Tok2)} }

\* the Authorization headers of the requests
Headers ==
  { Unset, Str(<<>>),
    Str(BearerPrefix \o Tok1), Str(BearerPrefix \o Tok2), Str(BearerPrefix),
    Str(BearerPrefix \o Tok1 \o <<"1">>), Str(BearerPrefix \o <<"s">>),
    Str(Tok1), Str(<<"b", "e", "a", "r", "e", "r", " ">> \o Tok1),
    Str(<<"B", "e", "a", "r", "e", "r">> \o Tok1),
    Str(<<" ">> \o BearerPrefix \o Tok1),
    Str(BasicPrefix \o User \o <<":">> \o Password),
    Str(BasicPrefix \o User \o <<":", "q">>),
    Str(BasicPrefix \o User) }

Requests ==
  { [url |-> u, authorization |-> h] :
      u \in {"/metrics", "/", "/favicon.ico"}, h \in Headers }

InitServer ==
  /\ HInit /\ batchSize = 1
  /\ CInit /\ maxAge = 1
  /\ PInit
  /\ auth \in AuthConfigs
  /\ routes = <<>>
  /\ request = NoRequest
  /\ scrapes = <<>>

\* start(), lines 131-148
Start ==
  /\ DOMAIN routes = {}
  /\ routes' = Registered(auth)
  /\ UNCHANGED <<auth, request, scrapes, hvars, cvars, pvars>>

\* a request arrives: the hook of its route runs, and then, unless the hook
\* has sent the reply, the handler of the route; the handler of /metrics is
\* metrics(), which runs up to its await of getServices
Serve ==
  /\ DOMAIN routes # {}
  /\ request = NoRequest
  /\ \E req \in Requests :
       LET hook == RunHook(routes[req.url], req.authorization, auth)
       IN /\ request' = req
          /\ IF hook.sent
             THEN /\ status' = hook.status
                  /\ body' = hook.body
                  /\ hpc' = hpc
             ELSE IF req.url = "/metrics"
             THEN /\ hpc' = "fetching"
                  /\ UNCHANGED <<status, body>>
             ELSE IF req.url = "/"
             THEN /\ status' = 200
                  /\ body' = <<"{\"status\":\"ok\"}">>
                  /\ hpc' = hpc
             ELSE /\ status' = 204
                  /\ body' = <<>>
                  /\ hpc' = hpc
  /\ UNCHANGED <<batchSize, fetched, coll, issued, logged, uncaught>>
  /\ UNCHANGED <<auth, routes, scrapes, cvars, pvars>>

SNext == Start \/ Serve

SpecServer == InitServer /\ [][SNext]_vars

(***************************************************************************)
(* Scrapes handled at the same time: every call of metrics(request, reply) *)
(* has its own request.log, services, promises and reply; config is the    *)
(* one thing the calls share, and no call writes to it. Two scrapes are    *)
(* enough to show a pair that interferes.                                  *)
(***************************************************************************)
Scrapes == {1, 2}

\* the lists getServices resolves with when several scrapes run
ScrapeLists == { <<>>, SubSeq(ServiceUniverse, 1, 1) }

\* the locals of a call of metrics() that has not started
IdleScrape ==
  [hpc |-> "idle", fetched |-> <<>>,
   coll |-> [f \in AsyncFamilies |-> [batches |-> <<>>, resp |-> <<>>, out |-> Pending]],
   issued |-> 0, status |-> 0, body |-> <<>>, logged |-> {}, uncaught |-> FALSE]

\* the locals of a scrape once its collectors are c: it replies when all have
\* settled, and waits otherwise
Proceed(scr, svcs, c, log) ==
  IF AllSettled(c)
  THEN LET r == Reply(svcs, c, log)
       IN [scr EXCEPT !.hpc = "done", !.coll = c, !.status = r.status, !.body = r.body,
                      !.logged = r.logged, !.uncaught = r.uncaught]
  ELSE [scr EXCEPT !.hpc = "collecting", !.coll = c, !.logged = log]

\* only the locals of scrape s change
SetScrape(s, scr) ==
  /\ scrapes' = [scrapes EXCEPT ![s] = scr]
  /\ UNCHANGED <<auth, routes, request>>
  /\ UNCHANGED hvars
  /\ UNCHANGED cvars
  /\ UNCHANGED pvars

\* scrape s arrives: metrics() runs up to await getServices(...)
RequestOf(s) ==
  /\ scrapes[s].hpc = "idle"
  /\ SetScrape(s, [scrapes[s] EXCEPT !.hpc = "fetching"])

\* the getServices call of scrape s resolves
FetchOkOf(s) ==
  /\ scrapes[s].hpc = "fetching"
  /\ \E svcs \in ScrapeLists :
       LET c == [f \in AsyncFamilies |-> Launch(f, svcs, batchSize)]
           n == Len(c["instance"].batches) + Len(c["cpu"].batches)
                + Len(c["memory"].batches) + Len(c["bandwidth"].batches)
                + Len(c["connections"].batches)
       IN SetScrape(s, Proceed([scrapes[s] EXCEPT !.fetched = svcs, !.issued = n],
                               svcs, c, CatchLog(c, Families, scrapes[s].logged)))

\* the getServices call of scrape s rejects
FetchFailOf(s) ==
  /\ scrapes[s].hpc = "fetching"
  /\ LET r == HandlerCatch(UpstreamError, scrapes[s].logged)
     IN SetScrape(s, [scrapes[s] EXCEPT !.hpc = "done", !.status = r.status,
                                        !.body = r.body, !.logged = r.logged,
                                        !.uncaught = r.uncaught])

\* a batch query of family f of scrape s resolves
BatchOkOf(s, f, i) ==
  LET scr == scrapes[s]
  IN /\ scr.hpc = "collecting"
     /\ scr.coll[f].out.st = "pending"
     /\ i \in DOMAIN scr.coll[f].resp
     /\ scr.coll[f].resp[i] = "pending"
     /\ LET resp == [scr.coll[f].resp EXCEPT ![i] = "ok"]
        IN IF \A j \in DOMAIN resp : resp[j] = "ok"
           THEN \E allMetricsResults \in AnswerArrays(f, scr.coll[f].batches) :
                  LET rel == relevantServices(f, scr.fetched)
                      p == CollectSettle(rel, rel, MetricFn(f), Definition(f),
                                         allMetricsResults)
                      c == [scr.coll EXCEPT ![f] = [batches |-> @.batches, resp |-> <<>>,
                                                    out |-> Settled(p)]]
                  IN SetScrape(s, Proceed(scr, scr.fetched, c, CatchLog(c, <<f>>, scr.logged)))
           ELSE SetScrape(s, [scr EXCEPT !.coll[f].resp = resp])

\* a batch query of family f of scrape s rejects
BatchFailOfShared(s, f, i) ==
  /\ scrapes[s].hpc = "collecting"
  /\ scrapes[s].coll[f].out.st = "pending"
  /\ i \in DOMAIN scrapes[s].coll[f].resp
  /\ scrapes[s].coll[f].resp[i] = "pending"
  /\ scrapes' = [t \in Scrapes |->
                   LET scr == scrapes[t]
                       c == [scr.coll EXCEPT ![f] = [batches |-> @.batches,
                                                     resp |-> <<"rejected">>,
                                                     out |-> Settled(Rejected(UpstreamError))]]
                   IN IF scr.hpc = "collecting" /\ scr.coll[f].out.st = "pending"
                      THEN Proceed(scr, scr.fetched, c, CatchLog(c, <<f>>, scr.logged))
                      ELSE scr]
  /\ UNCHANGED <<auth, routes, request>>
  /\ UNCHANGED hvars
  /\ UNCHANGED cvars
  /\ UNCHANGED pvars
BatchFailOf(s, f, i) ==
  LET scr == scrapes[s]
  IN /\ scr.hpc = "collecting"
     /\ scr.coll[f].out.st = "pending"
     /\ i \in DOMAIN scr.coll[f].resp
     /\ scr.coll[f].resp[i] = "pending"
     /\ LET c == [scr.coll EXCEPT ![f] = [batches |-> @.batches,
                                          resp |-> <<"rejected">>,
                                          out |-> Settled(Rejected(UpstreamError))]]
        IN SetScrape(s, Proceed(scr, scr.fetched, c, CatchLog(c, <<f>>, scr.logged)))

InitScrapes ==
  /\ HInit /\ batchSize = 1
  /\ CInit /\ maxAge = 1
  /\ PInit
  /\ auth = [username |-> Unset, password |-> Unset, bearer_token |-> Unset]
  /\ routes = <<>>
  /\ request = NoRequest
  /\ scrapes = [s \in Scrapes |-> IdleScrape]

ScrapesNext ==
  \/ \E s \in Scrapes : RequestOf(s)
  \/ \E s \in Scrapes : FetchOkOf(s)
  \/ \E s \in Scrapes : FetchFailOf(s)
  \/ \E s \in Scrapes : \E f \in AsyncFamilies : \E i \in 1..MaxServices : BatchOkOf(s, f, i)
  \/ \E s \in Scrapes : \E f \in AsyncFamilies : \E i \in 1..MaxServices : BatchFailOf(s, f, i)

SpecScrapes == InitScrapes /\ [][ScrapesNext]_vars

(***************************************************************************)
(* Properties of a scrape.                                                 *)
(***************************************************************************)
FetchSucceeded == AllSettled(coll)
RejectedFamilies == { f \in AsyncFamilies : coll[f].out.st = "settled" /\ ~coll[f].out.p.ok }

\* the result of a family whose collector did not reject
ResultOf(f) ==
  IF f = "count" THEN collectServiceCountMetric(fetched) ELSE coll[f].out.p.val

\* the families whose collector succeeded with at least one point
FamiliesWithPoints ==
  { f \in Range(Families) \ RejectedFamilies : Len(ResultOf(f).values) > 0 }

Contains(text, block) ==
  \E k \in 0..(Len(text) - Len(block)) : SubSeq(text, k + 1, k + Len(block)) = block

\* every line family f can put in a body of this scrape
FamilyLines(f) ==
  IF f = "count" THEN Range(formatMetricResult(collectServiceCountMetric(fetched)))
  ELSE UNION { LET rel == relevantServices(f, fetched)
                   p == CollectSettle(rel, rel, MetricFn(f), Definition(f), a)
               IN IF p.ok THEN Range(formatMetricResult(p.val)) ELSE {}
               : a \in AnswerArrays(f, coll[f].batches) }

ErrorBodies == { <<"Error fetching metrics">>,
                 <<"Error fetching metrics: all collectors failed">> }

\* C1: when the resource list was fetched and some collector rejected (the
\* service count never does, so not all did), the reply is a 200 whose body
\* holds the block of every collector that succeeded with at least one point
\* and no line of a collector that rejected.
C1_PartialFailure ==
  (hpc = "done" /\ FetchSucceeded /\ RejectedFamilies # {}) =>
    /\ status = 200
    /\ \A f \in FamiliesWithPoints : Contains(body, formatMetricResult(ResultOf(f)))
    /\ \A f \in RejectedFamilies : Range(body) \cap FamilyLines(f) = {}

C1_Witness ==
  /\ hpc = "done"
  /\ status = 200
  /\ RejectedFamilies # {}
  /\ FamiliesWithPoints \cap AsyncFamilies # {}

\* C2: when every collector that can reject has rejected, the reply is a 500.
C2_TotalFailure ==
  (hpc = "done" /\ FetchSucceeded /\ RejectedFamilies = AsyncFamilies) => status = 500

\* C3: a scrape ends in a 200 with a metrics body or in a 500 with a short
\* error string, whatever the upstream calls did; no error leaves the handler,
\* and a handler that has not replied is waiting for an upstream call.
C3_TwoOutcomes ==
  /\ ~uncaught
  /\ hpc = "done" =>
       \/ /\ status = 200
          /\ body \notin ErrorBodies
          /\ LET lines == UNION { FamilyLines(f) : f \in Range(Families) }
             IN \A i \in DOMAIN body : body[i] = "" \/ body[i] \in lines
       \/ /\ status = 500
          /\ body \in ErrorBodies
  /\ hpc # "done" =>
       /\ status = 0
       /\ \/ hpc \in {"idle", "fetching"}
          \/ \E f \in AsyncFamilies : \E i \in DOMAIN coll[f].resp : coll[f].resp[i] = "pending"

C3_Witness ==
  /\ hpc = "done"
  /\ status = 500
  /\ body = <<"Error fetching metrics">>
  /\ UpstreamError \in logged

\* the batches collectMetrics makes for family f of the fetched list
BatchesOf(f) == chunkArray(Ids(relevantServices(f, fetched)), batchSize)
BatchCount(f) == Len(BatchesOf(f))

\* C12: every batch of every collectMetrics call gets one query, and all the
\* queries are sent in the step that calls the collectors, before any answer
\* is taken: while answers come in, in any order, no further query is sent.
C12_AllIssuedFirst ==
  /\ [][issued' # issued =>
          /\ hpc = "fetching"
          /\ \A f \in AsyncFamilies :
               \A i \in DOMAIN coll'[f].resp : coll'[f].resp[i] = "pending"]_vars
  /\ [](hpc \in {"collecting", "done"} =>
          /\ issued = BatchCount("instance") + BatchCount("cpu") + BatchCount("memory")
                       + BatchCount("bandwidth") + BatchCount("connections")
          /\ \A f \in AsyncFamilies :
               /\ coll[f].batches = BatchesOf(f)
               /\ coll[f].out.st = "pending" => DOMAIN coll[f].resp = DOMAIN coll[f].batches)

C12_Witness ==
  /\ hpc = "collecting"
  /\ coll["cpu"].resp = <<"pending", "ok">>
  /\ coll["memory"].resp = <<"ok", "pending">>
  /\ issued = 8

\* the families one of whose batch queries has rejected
BatchRejected == { f \in AsyncFamilies : "rejected" \in Range(coll[f].resp) }

\* C13: a rejected batch query rejects its family's collection, whatever the
\* other batches of the family answered, and the family puts no line in the
\* body; the step changes nothing of any other family, whose block is in the
\* body all the same.
C13_BatchFailure ==
  /\ [][\A f \in AsyncFamilies :
          ("rejected" \in Range(coll'[f].resp) /\ coll[f].out.st = "pending") =>
            /\ coll'[f].out = Settled(Rejected(UpstreamError))
            /\ \A g \in AsyncFamilies \ {f} : coll'[g] = coll[g]]_vars
  /\ [](\A f \in BatchRejected :
          /\ f \in RejectedFamilies
          /\ hpc = "done" =>
               /\ status = 200
               /\ Range(body) \cap FamilyLines(f) = {}
               /\ \A g \in FamiliesWithPoints :
                    Contains(body, formatMetricResult(ResultOf(g))))

C13_Witness ==
  /\ hpc = "done"
  /\ BatchRejected = {"cpu"}
  /\ Len(coll["cpu"].batches) = 2
  /\ FamiliesWithPoints = Range(Families) \ {"cpu"}

\* the families whose collector succeeded with no point at all
FamiliesWithoutPoints ==
  { f \in Range(Families) \ RejectedFamilies : Len(ResultOf(f).values) = 0 }

\* the definitions a result of family f may carry: the base one, and the one
\* renamed after the unit of the family's points
DefinitionsOf(f) ==
  IF f = "count" THEN {Definition(f)}
  ELSE {Definition(f),
        [Definition(f) EXCEPT !.name = Definition(f).name \o "_" \o UnitOf(f)]}
HelpLines(f) == { formatMetricHeader(d)[1] : d \in DefinitionsOf(f) }
TypeLines(f) == { formatMetricHeader(d)[2] : d \in DefinitionsOf(f) }
ValueLines(f) == FamilyLines(f) \ (HelpLines(f) \cup TypeLines(f))

\* C19: a result without values formats to no text and leaves nothing in the
\* body: no HELP line, no TYPE line, no empty line of its own (the empty lines
\* of a body are those between the blocks of the families with points); and a
\* HELP line of a body is followed by the TYPE line and by a value line of the
\* same family.
C19_EmptyFamilyAbsent ==
  (hpc = "done" /\ status = 200) =>
    /\ \A f \in FamiliesWithoutPoints :
         /\ formatMetricResult(ResultOf(f)) = <<>>
         /\ Range(body) \cap (HelpLines(f) \cup TypeLines(f)) = {}
    /\ LET blanks == { i \in DOMAIN body : body[i] = "" }
       IN /\ Cardinality(blanks) = Cardinality(FamiliesWithPoints) - 1
          /\ \A i \in blanks :
               /\ 1 < i /\ i < Len(body)
               /\ \E f \in Range(Families) : body[i + 1] \in HelpLines(f)
    /\ \A f \in Range(Families) :
         \A i \in DOMAIN body :
           body[i] \in HelpLines(f) =>
             /\ i + 2 <= Len(body)
             /\ body[i + 1] = formatMetricHeader(ResultOf(f).definition)[2]
             /\ body[i + 2] \in ValueLines(f)
             /\ body[i] = formatMetricHeader(ResultOf(f).definition)[1]

C19_Witness ==
  /\ hpc = "done" /\ status = 200
  /\ FamiliesWithoutPoints = {"bandwidth"}
  /\ FamiliesWithPoints = Range(Families) \ {"bandwidth"}
  /\ Cardinality({ i \in DOMAIN body : body[i] = "" }) = 4

\* the ids a family's collector has sent in upstream queries
Queried(f) == Flat(coll[f].batches)

\* C20: the ids the bandwidth collector queries all start with "srv-", those
\* the active-connections collector queries all start with "red-" or "dpg-",
\* and the instance count, CPU and memory collectors query every fetched id.
C20_KindFilters ==
  hpc \in {"collecting", "done"} =>
    /\ Range(Queried("bandwidth")) \subseteq {"srv-a", "srv-b"}
    /\ Range(Queried("connections")) \subseteq {"red-a", "dpg-a"}
    /\ \A f \in {"instance", "cpu", "memory"} : Queried(f) = Ids(fetched)

C20_Witness ==
  /\ hpc = "collecting"
  /\ Ids(fetched) = <<"dpg-a", "crn-a">>
  /\ Queried("bandwidth") = <<>>
  /\ Queried("connections") = <<"dpg-a">>
  /\ Queried("cpu") = <<"dpg-a", "crn-a">>

\* the collectors have been called with the fetched list
Launched == hpc = "collecting" \/ (hpc = "done" /\ FetchSucceeded)

\* whether the fetched list holds no resource of the kinds family f is about
NoneOfKind(f) ==
  CASE f = "bandwidth" -> Range(Ids(fetched)) \cap {"srv-a", "srv-b"} = {}
    [] f = "connections" -> Range(Ids(fetched)) \cap {"red-a", "dpg-a"} = {}

\* the lines the families other than f can put in a body of this scrape
LinesOfOthers(f) == UNION { FamilyLines(g) : g \in Range(Families) \ {f} }

\* C21: when the fetched list holds no resource of its kinds, the bandwidth
\* (active-connections) collector sends no query and resolves with its base
\* definition and no value: it is not rejected, nothing is logged for it, and
\* the 200 body holds lines of the other families only.
C21_FilterToEmpty ==
  Launched =>
    \A f \in {"bandwidth", "connections"} :
      NoneOfKind(f) =>
        /\ coll[f].batches = <<>>
        /\ coll[f].out = Settled(Fulfilled(Result(Definition(f), <<>>)))
        /\ f \notin RejectedFamilies
        /\ \A m \in logged :
             m \notin { CatchText(f) \o UpstreamError,
                        CatchText(f) \o EmptyResultError(MetricFn(f), <<>>) }
        /\ hpc = "done" =>
             /\ status = 200
             /\ Range(body) \cap (HelpLines(f) \cup TypeLines(f)) = {}
             /\ Range(body) \subseteq {""} \cup LinesOfOthers(f)

C21_Witness ==
  /\ hpc = "done" /\ status = 200
  /\ Ids(fetched) = <<"red-a", "dpg-a">>
  /\ NoneOfKind("bandwidth") /\ ~NoneOfKind("connections")
  /\ issued = 8
  /\ RejectedFamilies = {}
  /\ FamiliesWithPoints = Range(Families) \ {"bandwidth"}

\* C22: the service count is one point without labels whose value is the
\* length of the fetched list; it cannot be rejected, so a scrape whose list
\* was fetched replies 200 with the render_service_count block in its body,
\* whatever became of the other collectors.
C22_ServiceCount ==
  (hpc = "done" /\ FetchSucceeded) =>
    /\ collectServiceCountMetric(fetched).values
         = << [labels |-> <<>>, value |-> Len(fetched)] >>
    /\ "count" \in FamiliesWithPoints
    /\ status = 200
    /\ Contains(body, << "# HELP render_service_count Total number of services",
                         "# TYPE render_service_count gauge",
                         "render_service_count{} " \o ToString(Len(fetched)) >>)

C22_Witness ==
  /\ hpc = "done" /\ FetchSucceeded
  /\ RejectedFamilies = AsyncFamilies
  /\ body = << "# HELP render_service_count Total number of services",
               "# TYPE render_service_count gauge",
               "render_service_count{} 2" >>

\* the families with points, in the order of the handler's array
BlockOrder == SelectSeq(Families, LAMBDA f : f \in FamiliesWithPoints)
BlockAt(i) == formatMetricResult(ResultOf(BlockOrder[i]))
RECURSIVE BlockStart(_)
\* the number of body lines before the i-th block
BlockStart(i) == IF i = 1 THEN 0 ELSE BlockStart(i - 1) + Len(BlockAt(i - 1)) + 1

\* C26: the body of a 200 is the blocks of the families with points, in the
\* order instance count, service count, CPU, memory, bandwidth, active
\* connections; one empty line, and only one, stands between two consecutive
\* blocks, and none before the first or after the last. This holds in every
\* order in which the upstream calls complete.
C26_FixedOrder ==
  (hpc = "done" /\ status = 200) =>
    LET n == Len(BlockOrder)
    IN /\ n > 0
       /\ Len(body) = BlockStart(n) + Len(BlockAt(n))
       /\ \A i \in 1..n :
            /\ SubSeq(body, BlockStart(i) + 1, BlockStart(i) + Len(BlockAt(i))) = BlockAt(i)
            /\ "" \notin Range(BlockAt(i))
            /\ i > 1 => body[BlockStart(i)] = ""

C26_Witness ==
  /\ hpc = "done" /\ status = 200
  /\ BlockOrder = <<"instance", "count", "memory", "connections">>
  /\ RejectedFamilies = {"cpu"}
  /\ Cardinality({ i \in DOMAIN body : body[i] = "" }) = 3

\* no collector has been called
NotLaunched ==
  \A f \in AsyncFamilies : coll[f] = [batches |-> <<>>, resp |-> <<>>, out |-> Pending]

\* C29: the resource list is fetched once, and no collector is called before
\* the fetch has resolved: collectors are called in the step that ends the
\* fetch, and the handler never fetches again. When the fetch rejects, no
\* collector is called, no metric query is sent and the reply is a 500.
C29_FetchFirst ==
  /\ [](hpc \in {"idle", "fetching"} => NotLaunched /\ issued = 0)
  /\ [][(NotLaunched /\ ~NotLaunched') =>
          hpc = "fetching" /\ hpc' \in {"collecting", "done"}]_vars
  /\ [][~NotLaunched => coll'["cpu"].batches = coll["cpu"].batches /\ issued' = issued]_vars
  /\ [][hpc' = "fetching" => hpc \in {"idle", "fetching"}]_vars
  /\ []((hpc = "done" /\ ~FetchSucceeded) =>
         /\ NotLaunched
         /\ issued = 0
         /\ status = 500
         /\ body = <<"Error fetching metrics">>)

C29_Witness ==
  /\ hpc = "done"
  /\ ~FetchSucceeded
  /\ NotLaunched
  /\ issued = 0
  /\ status = 500
  /\ batchSize = MaxBatchSize

\* C30: when the fetch resolves with the empty list no metric query is sent;
\* the instance count, CPU and memory collectors reject with the empty-result
\* error, the bandwidth and active connections collectors return results
\* without points, and the reply is a 200 whose body is the
\* render_service_count block alone, with the value 0.
C30_EmptyList ==
  (Launched /\ fetched = <<>>) =>
    /\ issued = 0
    /\ \A f \in AsyncFamilies : coll[f].batches = <<>>
    /\ \A f \in {"instance", "cpu", "memory"} :
         coll[f].out = Settled(Rejected("Error: Empty metrics result " \o MetricFn(f) \o " "))
    /\ \A f \in {"bandwidth", "connections"} :
         coll[f].out = Settled(Fulfilled(Result(Definition(f), <<>>)))
    /\ hpc = "done"
    /\ status = 200
    /\ body = << "# HELP render_service_count Total number of services",
                 "# TYPE render_service_count gauge",
                 "render_service_count{} 0" >>

C30_Witness ==
  /\ hpc = "done"
  /\ FetchSucceeded
  /\ fetched = <<>>
  /\ RejectedFamilies = {"instance", "cpu", "memory"}
  /\ status = 200
  /\ "render_service_count{} 0" \in Range(body)

\* the status and body the handler gives for the responses a scrape got
OutcomeOf(scr) ==
  IF AllSettled(scr.coll)
  THEN LET r == Reply(scr.fetched, scr.coll, {}) IN <<r.status, r.body>>
  ELSE <<500, <<"Error fetching metrics">> >>

\* C28: scrapes handled at the same time do not interfere. A step of one
\* scrape changes nothing of another; the batch queries of a scrape are those
\* of the list its own fetch resolved with; the status and body of a scrape
\* that has replied are those the handler gives for the responses to its own
\* calls, so that two scrapes with the same responses reply the same.
C28_NoInterference ==
  /\ [][\A s \in Scrapes : \A t \in Scrapes \ {s} :
          scrapes'[s] # scrapes[s] => scrapes'[t] = scrapes[t]]_vars
  /\ [](\A s \in Scrapes :
          LET scr == scrapes[s]
          IN /\ scr.hpc \in {"collecting", "done"} /\ (scr.hpc = "done" => AllSettled(scr.coll)) =>
                  \A f \in AsyncFamilies :
                    scr.coll[f].batches
                      = chunkArray(Ids(relevantServices(f, scr.fetched)), batchSize)
             /\ scr.hpc = "done" => <<scr.status, scr.body>> = OutcomeOf(scr)
             /\ scr.hpc # "done" => scr.status = 0)
  /\ [](\A s \in Scrapes : \A t \in Scrapes :
          (scrapes[s].hpc = "done" /\ scrapes[t].hpc = "done"
             /\ scrapes[s].fetched = scrapes[t].fetched
             /\ scrapes[s].coll = scrapes[t].coll) =>
            (scrapes[s].status = scrapes[t].status /\ scrapes[s].body = scrapes[t].body))

C28_Witness ==
  /\ scrapes[1].hpc = "done"
  /\ scrapes[1].status = 200
  /\ scrapes[1].coll["cpu"].out.p.ok
  /\ Len(scrapes[1].body) > 3
  /\ scrapes[2].hpc = "collecting"
  /\ scrapes[2].fetched = scrapes[1].fetched
  /\ scrapes[2].coll["cpu"].out = Settled(Rejected(UpstreamError))
  /\ scrapes[2].coll["memory"].out.st = "pending"

(***************************************************************************)
(* Properties of the cache.                                                *)
(***************************************************************************)
EmptySnapshot == [services |-> EmptyList, redises |-> EmptyList, postgreses |-> EmptyList]
SnapshotOf(r) ==
  [services |-> FetchedList(r, "services"), redises |-> FetchedList(r, "redises"),
   postgreses |-> FetchedList(r, "postgreses")]
Current == [services |-> services, redises |-> redises, postgreses |-> postgreses]
Done == { r \in DOMAIN refreshes : refreshes[r].st = "done" }
Running == { r \in DOMAIN refreshes : refreshes[r].st = "running" }
Failed == { r \in DOMAIN refreshes : refreshes[r].st = "failed" }
\* the refreshes scheduled by the c-th getResources call that have started
StartedBy(c) == { r \in DOMAIN refreshes : refreshes[r].call = c }

\* C4: a getResources call returns the three lists held when it is called and
\* at most queues a refresh: it starts none, it changes no field, and the lists
\* it returned are never those of the refresh it queued.
C4_NonBlocking ==
  /\ [][gets' # gets =>
          /\ call'.ret = Current
          /\ refreshes' = refreshes
          /\ Current' = Current /\ lastRefreshed' = lastRefreshed
          /\ timers' \in {timers, Append(timers, gets')}]_vars
  /\ [](\A r \in StartedBy(gets) :
          \A k \in Kinds : call.ret[k].by # r)

C4_Witness ==
  /\ call.sched
  /\ \E r \in StartedBy(gets) : refreshes[r].st = "done" /\ Current = SnapshotOf(r)
  /\ call.ret # Current

\* C5: the lists of the cache, and the lists a call returned, are the three
\* initial empty lists or the three lists of one completed refresh, and the
\* timestamp is the one of that refresh.
C5_WholeSnapshot ==
  /\ \/ Current = EmptySnapshot /\ lastRefreshed.null
     \/ \E r \in Done :
          /\ Current = SnapshotOf(r)
          /\ lastDone.id = r
          /\ lastRefreshed = DateAt(lastDone.at)
  /\ \/ call.ret = EmptySnapshot
     \/ \E r \in Done : call.ret = SnapshotOf(r)

C5_Witness ==
  /\ \E r \in Done : call.ret = SnapshotOf(r)
  /\ \E r \in Running : \E k \in Kinds : refreshes[r].got[k] = "ok"
  /\ Cardinality(Done) >= 2

\* C6: a refresh that fails changes none of services, redises, postgreses and
\* lastRefreshed.
C6_FailureKeeps ==
  [][errlog' # errlog => Fields' = Fields]_vars

C6_Witness ==
  /\ \E r \in Failed \cap StartedBy(gets) :
       Cardinality({k \in Kinds : refreshes[r].got[k] = "ok"}) = 2
  /\ call.ret # EmptySnapshot
  /\ Current = call.ret
  /\ ~lastRefreshed.null

\* C7: the error of a failed background refresh is swallowed: no promise is
\* left rejected without a handler.
C7_Swallowed == unhandled = 0

\* C8: at most one refresh is queued or running at any time.
C8_SingleFlight == Len(timers) + Cardinality(Running) <= 1

\* C9: as long as the refresh queued by the first getResources call has not
\* completed, every call returns the empty snapshot.
C9_EmptyUntilFirstRefresh ==
  (gets >= 1 /\ (1 \in Range(timers) \/ StartedBy(1) \cap Running # {})) =>
    call.ret = EmptySnapshot

\* C10: a getResources call queues a refresh exactly when the cache was never
\* refreshed or is older than maxAge; at age maxAge or less it queues none.
C10_StaleIffOld ==
  gets >= 1 => (call.sched <=> (call.age = -1 \/ call.age > maxAge))

C10_Witness ==
  /\ gets >= 1
  /\ call.age = maxAge
  /\ ~call.sched

\* a step in which a refresh fails, and a step that is a getResources call
RefreshFails ==
  \E r \in DOMAIN refreshes : refreshes[r].st = "running" /\ refreshes'[r].st = "failed"
GetStep == gets' = gets + 1

\* a failed refresh leaves lastRefreshed as it was
FailureKeepsDate == [][RefreshFails => lastRefreshed' = lastRefreshed]_vars
\* the cache is stale after a failed refresh
FailureLeavesStale == [][RefreshFails => isStale']_vars
\* a call on a stale cache queues a refresh
StaleCallSchedules == [][(GetStep /\ isStale) => call'.sched]_vars
\* a call on a refreshed cache returns the lists of the refresh that completed
\* last, and queues no refresh while the age is at most maxAge
RefreshedCallServes ==
  [][(GetStep /\ ~lastRefreshed.null) =>
       /\ lastDone.id \in Done
       /\ call'.ret = SnapshotOf(lastDone.id)
       /\ (now - lastRefreshed.time <= maxAge) => ~call'.sched]_vars
\* a refreshed cache stays refreshed
StaysRefreshed == [][~lastRefreshed.null => ~lastRefreshed'.null]_vars

\* C27: a failed refresh leaves lastRefreshed as it was and the cache stale,
\* so that the next call queues a refresh; once a refresh has succeeded every
\* call returns the lists of the refresh that completed last and queues no
\* refresh until maxAge has elapsed; the cache never goes back to the state
\* of a cache that was never refreshed.
C27_RetryThenFresh ==
  /\ FailureKeepsDate
  /\ FailureLeavesStale
  /\ StaleCallSchedules
  /\ RefreshedCallServes
  /\ StaysRefreshed

\* C31: the lists the cache holds are never replaced by the lists of a
\* refresh that started before the refresh whose lists it holds (refreshes
\* are numbered in the order in which they start; 0 is the empty snapshot).
C31_NeverBackInTime ==
  [][/\ services'.by >= services.by
     /\ redises'.by >= redises.by
     /\ postgreses'.by >= postgreses.by]_vars

(***************************************************************************)
(* Properties of chunkArray.                                               *)
(***************************************************************************)
\* C11: called with N ids and a chunk size B >= 1, chunkArray returns
\* ceil(N / B) chunks whose concatenation in order is the input; every chunk
\* but the last has B ids, the last has 1 to B, and no id gives no chunk.
C11_Chunks ==
  ppc = "returned" =>
    LET N == Len(args.array)
        B == args.chunkSize
    IN /\ Len(ret) * B >= N /\ (Len(ret) - 1) * B < N
       /\ Flat(ret) = args.array
       /\ \A i \in DOMAIN ret :
            /\ i < Len(ret) => Len(ret[i]) = B
            /\ i = Len(ret) => Len(ret[i]) \in 1..B
       /\ N = 0 => ret = <<>>

C11_Witness ==
  /\ ppc = "returned"
  /\ Len(args.array) = 4 /\ args.chunkSize = 3
  /\ Len(ret) = 2 /\ Len(ret[2]) = 1

(***************************************************************************)
(* Properties of collectMetrics.                                           *)
(***************************************************************************)
\* a series with at least one label and at least one data point
Usable(s) == ~s.null /\ Len(s.labels) >= 1 /\ Len(s.values) >= 1
\* the usable series of the call, in batch order then series order
UsableSeries == SelectSeq(Flat(args.allMetricsResults), Usable)
Succeeded == ppc = "returned" /\ ret.outcome.ok
Points == ret.outcome.val.values

\* C14: the call fails with the error 'Empty metrics result' exactly when the
\* batch answers hold no usable series, zero batches included, and a call that
\* succeeds returns at least one point.
C14_EmptyFails ==
  ppc = "returned" =>
    /\ UsableSeries = <<>> =>
         /\ ~ret.outcome.ok
         /\ ret.outcome.err = EmptyResultError(MetricFn(args.family), args.services)
    /\ ret.outcome.ok => Len(Points) >= 1 /\ UsableSeries # <<>>

C14_Witness ==
  /\ ppc = "returned"
  /\ ~ret.outcome.ok
  /\ Len(Flat(args.allMetricsResults)) = 2
  /\ \A i \in 1..2 : ~Flat(args.allMetricsResults)[i].null

\* the value a point's label set gives to a key
ValueOfKey(point, key) == (CHOOSE e \in Range(point.labels) : e[1] = key)[2]
KeysOf(point) == { e[1] : e \in Range(point.labels) }

\* C15: the name of the returned definition is the base name, "_" and the
\* unit label of the first point, which is the point of the first usable
\* series in batch order then series order; help and type are the caller's,
\* and the call leaves the caller's definition as it is. The base name is the
\* name the caller's definition has when the batch queries have resolved,
\* which is when the call reads it.
C15_UnitSuffix ==
  /\ Succeeded =>
       LET first == UsableSeries[1]
       IN /\ Points[1].value = first.values[Len(first.values)].value
          /\ ret.outcome.val.definition =
               [name |-> args.metricDefinition.name \o "_" \o ValueOfKey(Points[1], "unit"),
                help |-> Definition(args.family).help,
                type |-> Definition(args.family).type]
          /\ ret.metricDefinition = args.metricDefinition
  /\ args.metricDefinition.name \in {Definition(args.family).name, "renamed_by_caller"}
  /\ args.metricDefinition.help = Definition(args.family).help
  /\ args.metricDefinition.type = Definition(args.family).type

C15_Witness ==
  /\ Succeeded
  /\ Len(args.allMetricsResults) = 2
  /\ Len(args.allMetricsResults[1]) = 1 /\ Len(args.allMetricsResults[2]) = 1
  /\ ~Usable(args.allMetricsResults[1][1])
  /\ args.allMetricsResults[2][1].unit = "bytes"
  /\ ret.outcome.val.definition.name = "render_service_cpu_usage_bytes"
  /\ ret.metricDefinition.name = "render_service_cpu_usage"

\* the upstream labels of a series that have a field name and a value
Named(s) == { i \in DOMAIN s.labels : s.labels[i].field # "" /\ s.labels[i].value # Undefined }
\* whether a series brings its own value for a key
Brings(s, key) == \E i \in Named(s) : s.labels[i].field = key
\* the value of the first resource label of a series, "" when it has none or
\* when that label has no value
ResourceOf(s) ==
  LET at == { i \in DOMAIN s.labels : s.labels[i].field = "resource" }
      first == s.labels[CHOOSE i \in at : \A j \in at : i <= j]
  IN IF at = {} THEN "" ELSE IF first.value = Undefined THEN "" ELSE first.value
\* the resources of the list the call was given whose id is the value of the
\* first resource label of a series
KnownTo(s) == { svc \in Range(ret.serviceMap) : svc.id = ResourceOf(s) }

\* C16 as stated: every usable series gives a point; its service_name is
\* "unknown" when the value of its resource label is the id of no resource of
\* the list, or when it has no resource label, and the name of the resource
\* when it is the id of one.
C16_AsStated ==
  Succeeded =>
    /\ Len(Points) = Len(UsableSeries)
    /\ \A k \in DOMAIN UsableSeries :
         LET s == UsableSeries[k]
         IN /\ KnownTo(s) = {} => ValueOfKey(Points[k], "service_name") = "unknown"
            /\ \A svc \in KnownTo(s) : ValueOfKey(Points[k], "service_name") = svc.name

\* C16, amended: every usable series gives a point. When the series brings a
\* service_name label of its own, the point's service_name is that label's
\* value (the last one's); otherwise it is the name of the resource of the
\* list the call was given whose id is the value of the series' first
\* resource label, and "unknown" when the series has no resource label, when
\* its first resource label has no value, when no resource has that id, or
\* when the name of the resource is empty.
C16_UnknownResource ==
  Succeeded =>
    /\ Len(Points) = Len(UsableSeries)
    /\ \A k \in DOMAIN UsableSeries :
         LET s == UsableSeries[k]
             own == { i \in Named(s) : s.labels[i].field = "service_name" }
             named == { svc \in KnownTo(s) : svc.name # "" }
         IN /\ own # {} =>
                 ValueOfKey(Points[k], "service_name")
                   = s.labels[CHOOSE i \in own : \A j \in own : j <= i].value
            /\ (own = {} /\ named = {}) =>
                 ValueOfKey(Points[k], "service_name") = "unknown"
            /\ own = {} =>
                 \A svc \in named : ValueOfKey(Points[k], "service_name") = svc.name

C16_Witness ==
  /\ Succeeded
  /\ Len(Points) = 2
  /\ ResourceOf(UsableSeries[1]) = "srv-b"
  /\ KnownTo(UsableSeries[1]) = { [id |-> "srv-b", name |-> ""] }
  /\ ValueOfKey(Points[1], "service_name") = "unknown"
  /\ ResourceOf(UsableSeries[2]) = "srv-a"
  /\ KnownTo(UsableSeries[2]) # {}
  /\ Brings(UsableSeries[2], "service_name")
  /\ ValueOfKey(Points[2], "service_name") = "custom"

\* C17 as stated: every point has the keys unit and service_name and every
\* upstream label of its series, field and value as they came, and an upstream
\* unit or service_name replaces the computed one.
C17_AllLabelsVerbatim ==
  Succeeded =>
    \A k \in DOMAIN UsableSeries :
      LET s == UsableSeries[k]
      IN /\ {"unit", "service_name"} \subseteq KeysOf(Points[k])
         /\ \A i \in DOMAIN s.labels :
              <<s.labels[i].field, s.labels[i].value>> \in Range(Points[k].labels)

\* C17, amended: every point has the keys unit and service_name, each key
\* once; it holds every upstream label that has a field name and a value, as
\* it came (the last one of a repeated field), and no other key; upstream
\* labels without a field name or without a value are left out; an upstream
\* unit or service_name replaces the computed one, which stays otherwise.
C17_LabelsKept ==
  Succeeded =>
    \A k \in DOMAIN UsableSeries :
      LET s == UsableSeries[k]
          last == { i \in Named(s) : \A j \in Named(s) : s.labels[j].field = s.labels[i].field => j <= i }
      IN /\ KeysOf(Points[k]) =
              {"unit", "service_name"} \cup { s.labels[i].field : i \in Named(s) }
         /\ Len(Points[k].labels) = Cardinality(KeysOf(Points[k]))
         /\ \A i \in last :
              ValueOfKey(Points[k], s.labels[i].field) = s.labels[i].value
         /\ ~Brings(s, "unit") => ValueOfKey(Points[k], "unit") = s.unit
         /\ ~Brings(s, "service_name") =>
              ValueOfKey(Points[k], "service_name") \in
                {"unknown"} \cup { svc.name : svc \in Range(ret.serviceMap) }

C17_Witness ==
  /\ Succeeded
  /\ Len(Points) = 2
  /\ Brings(UsableSeries[1], "unit") /\ Brings(UsableSeries[1], "service_name")
  /\ Points[1].labels = << <<"unit", "seconds">>, <<"service_name", "custom">>,
                           <<"resource", "srv-a">> >>
  /\ Named(UsableSeries[2]) # DOMAIN UsableSeries[2].labels
  /\ KeysOf(Points[2]) = {"unit", "service_name", "resource"}

\* C25: the points of a successful call are, one for one and in the order
\* of the flattened answers, the series with at least one label and one data
\* point; null entries and series without labels or without data points give
\* no point; the value of a point is the last data point of its series.
C25_PointPerSeries ==
  Succeeded =>
    /\ Len(Points) = Len(UsableSeries)
    /\ \A k \in DOMAIN UsableSeries :
         LET s == UsableSeries[k]
         IN /\ Points[k].value = s.values[Len(s.values)].value
            /\ \A i \in Named(s) : s.labels[i].field \in KeysOf(Points[k])

C25_Witness ==
  /\ Succeeded
  /\ Len(Flat(args.allMetricsResults)) = 2
  /\ Flat(args.allMetricsResults)[1].labels = <<>>
  /\ Len(Flat(args.allMetricsResults)[1].values) = 1
  /\ Flat(args.allMetricsResults)[2].values = <<[value |-> 4], [value |-> 3]>>
  /\ Len(Points) = 1
  /\ Points[1].value = 3

(***************************************************************************)
(* Properties of formatMetricValues.                                       *)
(***************************************************************************)
RECURSIVE InKeyOrder(_, _)
\* the labels of a label content rendered key by key in the order of keys
InKeyOrder(content, keys) ==
  IF keys = <<>> THEN <<>>
  ELSE (IF \E e \in content : e[1] = Head(keys)
        THEN LET e == CHOOSE x \in content : x[1] = Head(keys)
             IN <<e[1] \o "=\"" \o e[2] \o "\"">>
        ELSE <<>>) \o InKeyOrder(content, Tail(keys))

\* C18: the line of a point lists its labels by ascending key, whatever the
\* order they were inserted in: points of the same label content and value
\* give the same line.
C18_OrderFree ==
  (ppc = "returned" /\ args.values # <<>>) =>
    /\ Len(ret) = Len(args.values)
    /\ \A i \in DOMAIN args.values :
         LET v == args.values[i]
         IN /\ ret[i] = args.metricName \o "{"
                          \o JoinStr(InKeyOrder(Range(v.labels), LabelKeyOrder), ", ")
                          \o "} " \o ToString(v.value)
            /\ \A q \in Orderings(Range(v.labels)) :
                 formatMetricValues(args.metricName, <<[labels |-> q, value |-> v.value]>>)
                   = <<ret[i]>>

C18_Witness ==
  /\ ppc = "returned"
  /\ Len(args.values) = 2
  /\ args.values[1].labels = << <<"unit", "percent">>, <<"service_name", "web">>,
                                <<"resource", "srv-a">> >>
  /\ Range(args.values[2].labels) = Range(args.values[1].labels)
  /\ args.values[2].labels # args.values[1].labels
  /\ ret[1] = ret[2]
  /\ ret[1] = "render_service_cpu_usage_percent{resource=\"srv-a\", service_name=\"web\", unit=\"percent\"} 42"

(***************************************************************************)
(* Properties of the server.                                               *)
(***************************************************************************)
Served == request # NoRequest
HandlerRan == hpc = "fetching"

\* C23: with a bearer token configured, a request to /metrics runs the
\* metrics handler exactly when its Authorization header is "Bearer "
\* followed by the configured token; any other request gets a 401 and the
\* handler is not run.
C23_BearerGate ==
  (Served /\ request.url = "/metrics" /\ auth.bearer_token.set
     /\ auth.bearer_token.str # <<>>) =>
    LET exact == /\ request.authorization.set
                 /\ request.authorization.str = BearerPrefix \o auth.bearer_token.str
    IN /\ HandlerRan <=> exact
       /\ exact => status = 0
       /\ ~exact => status = 401 /\ hpc = "idle" /\ issued = 0

C23_Witness ==
  /\ Served /\ request.url = "/metrics"
  /\ auth.bearer_token = Str(Tok1)
  /\ request.authorization = Str(BearerPrefix \o Tok1 \o <<"1">>)
  /\ status = 401
  /\ body = <<"{\"error\":\"Unauthorized: Invalid token\"}">>
  /\ ~HandlerRan

\* a request to /metrics that passes the guard of the mode
Admitted(mode) ==
  CASE mode = "bearer" ->
         /\ request.authorization.set
         /\ request.authorization.str = BearerPrefix \o auth.bearer_token.str
    [] mode = "basic" ->
         /\ request.authorization.set
         /\ request.authorization.str
              = BasicPrefix \o auth.username.str \o <<":">> \o auth.password.str
    [] OTHER -> TRUE

\* C24: /metrics is guarded by bearer auth when a non-empty bearer token is
\* configured, whatever the username and password; otherwise by basic auth
\* when username and password are both non-empty; otherwise by nothing. One
\* guard at most decides, and / and /favicon.ico have none.
C24_OneAuthMode ==
  DOMAIN routes # {} =>
    LET bearer == auth.bearer_token.set /\ Len(auth.bearer_token.str) > 0
        basic == /\ auth.username.set /\ Len(auth.username.str) > 0
                 /\ auth.password.set /\ Len(auth.password.str) > 0
        mode == IF bearer THEN "bearer" ELSE IF basic THEN "basic" ELSE "none"
    IN /\ routes["/metrics"] = mode
       /\ routes["/"] = "none" /\ routes["/favicon.ico"] = "none"
       /\ (Served /\ request.url = "/metrics") =>
            /\ HandlerRan <=> Admitted(mode)
            /\ ~Admitted(mode) => status = 401
       /\ (Served /\ request.url = "/") => status = 200 /\ ~HandlerRan
       /\ (Served /\ request.url = "/favicon.ico") => status = 204 /\ ~HandlerRan

C24_Witness ==
  /\ Served /\ request.url = "/metrics"
  /\ auth = [username |-> Str(User), password |-> Str(Password), bearer_token |-> Str(Tok1)]
  /\ request.authorization = Str(BasicPrefix \o User \o <<":">> \o Password)
  /\ routes["/metrics"] = "bearer"
  /\ status = 401

====
